---- MODULE Spec2Model ----
(***************************************************************************)
(* A model of the Kindle notebook parser and renderer                      *)
(* (parseKindleHtml, kindleNotebookToMarkdown and their helpers).          *)
(*                                                                         *)
(* Text.  A JavaScript string is a sequence of lexemes.  A lexeme is       *)
(* either a one-character string or a whole markup tag such as             *)
(* "<div class='noteHeading'>"; the string it stands for is the            *)
(* concatenation of its lexemes.  The characters "<" and ">" occur in the  *)
(* input documents only inside tag lexemes, so a tag lexeme is exactly one *)
(* match of /<[^>]*>/ and the regular expressions of the source that       *)
(* mention markup are evaluated over tag lexemes; every other regular      *)
(* expression is evaluated character by character.  The two characters     *)
(* outside Latin-1 that the renderer emits are written in their            *)
(* JavaScript escape notation (MiddleDot, EmDash).                         *)
(*                                                                         *)
(* Optional values.  A field that is `undefined` in the source is None,    *)
(* a field holding the string s is Some(s).                                *)
(***************************************************************************)
EXTENDS Naturals, Sequences, FiniteSets

VARIABLES html, pc, lastIndex, highlights, notebookTitle, notebookAuthor,
          matches, report

vars == <<html, pc, lastIndex, highlights, notebookTitle, notebookAuthor,
          matches, report>>

\* ------------------------------------------------------------------ bounds

\* The longest document, in pieces (blocks and other fragments).
MaxPieces == 3

\* The longest highlight list handed to the renderer directly.
MaxHighlights == 2

\* ----------------------------------------------------------- basic helpers

None == <<>>

Some(x) == <<x>>

\* JavaScript truthiness of an optional string: defined and not empty.
Truthy(o) == o # None /\ o[1] # <<>>

Min(S) == CHOOSE x \in S : \A y \in S : x <= y

Max(S) == CHOOSE x \in S : \A y \in S : x >= y

Range(s) == {s[i] : i \in 1..Len(s)}

\* ------------------------------------------------------- character classes

\* \s, over the characters of the input alphabet.
Whitespace == {" ", "\n", "\t"}

Digit == {"0", "1", "2", "3", "4", "5", "6", "7", "8", "9"}

\* [\d-]
DigitOrHyphen == Digit \cup {"-"}

UpperCase == <<"A", "B", "C", "D", "E", "F", "G", "H", "I", "J", "K", "L", "M", "N", "O", "P", "Q", "R", "S", "T", "U", "V", "W", "X", "Y", "Z">>

LowerCase == <<"a", "b", "c", "d", "e", "f", "g", "h", "i", "j", "k", "l", "m", "n", "o", "p", "q", "r", "s", "t", "u", "v", "w", "x", "y", "z">>

ToLower == [c \in Range(UpperCase) |->
              LowerCase[CHOOSE i \in 1..Len(UpperCase) : UpperCase[i] = c]]

\* Case folding of the /i flag.
Fold(c) == IF c \in DOMAIN ToLower THEN ToLower[c] ELSE c

\* \w
WordChar == Range(UpperCase) \cup Range(LowerCase) \cup Digit \cup {"_"}

\* ------------------------------------------------------------- tag lexemes

\* <div[^>]*class=["']noteHeading["'][^>]*>
HeadingOpenTags == {"<div class='noteHeading'>", "<div id=\"h1\" class=\"noteHeading\">"}

\* <div[^>]*class=["']noteText["'][^>]*>
TextOpenTags == {"<div class='noteText'>", "<DIV CLASS=\"noteText\">"}

\* <\/div>
DivCloseTags == {"</div>", "</DIV>"}

\* class=["'](?:kp-notebook-title|bookTitle)["'][^>]*>
TitleClassTags == {"<div class='bookTitle'>", "<div class=\"kp-notebook-title\">"}

\* <title[^>]*>
TitleOpenTags == {"<title>"}

\* <\/title>
TitleCloseTags == {"</title>"}

\* class=["'](?:authors|kp-notebook-subtitle)["'][^>]*>
AuthorClassTags == {"<div class='authors'>", "<div class=\"kp-notebook-subtitle\">"}

\* <meta[^>]*name=["']author["'][^>]*content=["']([^"']*)["'][^>]*>, with the
\* content attribute each such tag carries (capture group 1).
MetaAuthorContent ==
  [t \in {"<meta name='author' content='J. Doe'>", "<meta name='author' content=''>"} |->
     IF t = "<meta name='author' content='J. Doe'>" THEN <<"J", ".", " ", "D", "o", "e">> ELSE <<>>]

MetaAuthorTags == DOMAIN MetaAuthorContent

\* Markup that none of the patterns looks for.
OtherTags == {"<b>", "</b>", "<br/>", "<p>", "</p>"}

\* Every lexeme that is one match of /<[^>]*>/.
Tag == HeadingOpenTags \cup TextOpenTags \cup DivCloseTags \cup TitleClassTags
         \cup TitleOpenTags \cup TitleCloseTags \cup AuthorClassTags
         \cup MetaAuthorTags \cup OtherTags

\* ------------------------------------------------------- string operations

\* s.slice(i - 1, i - 1 + Len(pat)) === pat
MatchesAt(s, i, pat) ==
  /\ i + Len(pat) - 1 <= Len(s)
  /\ \A k \in 1..Len(pat) : s[i + k - 1] = pat[k]

\* The same under the /i flag.
MatchesAtFold(s, i, pat) ==
  /\ i + Len(pat) - 1 <= Len(s)
  /\ \A k \in 1..Len(pat) : Fold(s[i + k - 1]) = Fold(pat[k])

\* The last index of the longest run of characters of `class` that starts at
\* i (i - 1 when the run is empty): a greedy class*.
RunEnd(s, i, class) ==
  LET stops == {j \in i..Len(s) : s[j] \notin class}
  IN  IF stops = {} THEN Len(s) ELSE Min(stops) - 1

\* s.replace(/pat/g, rep) for a literal pattern, scanning from index i:
\* leftmost matches, never overlapping, the replacement is not rescanned.
RECURSIVE ReplaceFrom(_, _, _, _)
ReplaceFrom(s, i, pat, rep) ==
  IF i > Len(s) THEN <<>>
  ELSE IF MatchesAt(s, i, pat)
       THEN rep \o ReplaceFrom(s, i + Len(pat), pat, rep)
       ELSE <<s[i]>> \o ReplaceFrom(s, i + 1, pat, rep)

ReplaceAll(s, pat, rep) == ReplaceFrom(s, 1, pat, rep)

\* s.replace(/\s+/g, ' '), scanning from index i.
RECURSIVE CollapseFrom(_, _)
CollapseFrom(s, i) ==
  IF i > Len(s) THEN <<>>
  ELSE IF s[i] \in Whitespace
       THEN <<" ">> \o CollapseFrom(s, RunEnd(s, i, Whitespace) + 1)
       ELSE <<s[i]>> \o CollapseFrom(s, i + 1)

\* s.trim()
Trim(s) ==
  LET solid == {i \in 1..Len(s) : s[i] \notin Whitespace}
  IN  IF solid = {} THEN <<>> ELSE SubSeq(s, Min(solid), Max(solid))

\* ------------------------------------------------------------ TextNormalizer

decodeEntities(text) ==
  LET a == ReplaceAll(text, <<"&", "n", "b", "s", "p", ";">>, <<" ">>)
      b == ReplaceAll(a, <<"&", "l", "t", ";">>, <<"<">>)
      c == ReplaceAll(b, <<"&", "g", "t", ";">>, <<">">>)
      d == ReplaceAll(c, <<"&", "a", "m", "p", ";">>, <<"&">>)
      e == ReplaceAll(d, <<"&", "q", "u", "o", "t", ";">>, <<"\"">>)
  IN  ReplaceAll(e, <<"&", "#", "3", "9", ";">>, <<"'">>)

\* html.replace(/<[^>]*>/g, ' ')
StripTags(s) == [i \in 1..Len(s) |-> IF s[i] \in Tag THEN " " ELSE s[i]]

cleanText(s) == Trim(CollapseFrom(decodeEntities(StripTags(s)), 1))

\* --------------------------------------------------------- MetadataExtractor

\* /kw\s+([\d-]+)/i at index i: the keyword, one or more whitespace
\* characters, one or more digits or hyphens.
KeywordMatchesAt(s, i, kw) ==
  /\ MatchesAtFold(s, i, kw)
  /\ LET w == i + Len(kw)
         d == RunEnd(s, w, Whitespace) + 1
     IN  d > w /\ d <= Len(s) /\ s[d] \in DigitOrHyphen

\* Capture group 1 of the leftmost match of /kw\s+([\d-]+)/i, if any.
KeywordToken(s, kw) ==
  LET starts == {i \in 1..Len(s) : KeywordMatchesAt(s, i, kw)}
  IN  IF starts = {} THEN None
      ELSE LET d == RunEnd(s, Min(starts) + Len(kw), Whitespace) + 1
           IN  Some(SubSeq(s, d, RunEnd(s, d, DigitOrHyphen)))

extractLocation(heading) == KeywordToken(heading, <<"L", "o", "c", "a", "t", "i", "o", "n">>)

extractPage(heading) == KeywordToken(heading, <<"P", "a", "g", "e">>)

\* The alternatives of the color pattern.
ColorNames == {<<"Y", "e", "l", "l", "o", "w">>, <<"B", "l", "u", "e">>, <<"P", "i", "n", "k">>, <<"O", "r", "a", "n", "g", "e">>, <<"G", "r", "e", "e", "n">>}

\* /\((Yellow|Blue|Pink|Orange|Green)\)/i at index i, for the alternative c.
ColorMatchesAt(s, i, c) ==
  /\ i <= Len(s) /\ s[i] = "("
  /\ MatchesAtFold(s, i + 1, c)
  /\ i + 1 + Len(c) <= Len(s) /\ s[i + 1 + Len(c)] = ")"

extractColor(heading) ==
  LET starts == {i \in 1..Len(heading) :
                   \E c \in ColorNames : ColorMatchesAt(heading, i, c)}
  IN  IF starts = {} THEN None
      ELSE LET i == Min(starts)
               c == CHOOSE n \in ColorNames : ColorMatchesAt(heading, i, n)
           IN  Some(SubSeq(heading, i + 1, i + Len(c)))

\* /^note\b/i.test(heading)
IsNoteHeading(heading) ==
  /\ MatchesAtFold(heading, 1, <<"n", "o", "t", "e">>)
  /\ (Len(heading) = Len(<<"n", "o", "t", "e">>) \/ heading[Len(<<"n", "o", "t", "e">>) + 1] \notin WordChar)

\* ------------------------------------------------------ TitleAuthorExtractor

\* Capture group 1 of the leftmost match of  open ([\s\S]*?) close , where
\* open and close are sets of tag lexemes: the text between the first opening
\* tag that has a closing tag after it and the first such closing tag.
LazyBetween(s, open, close) ==
  LET starts == {i \in 1..Len(s) :
                   s[i] \in open /\ \E j \in i + 1..Len(s) : s[j] \in close}
  IN  IF starts = {} THEN None
      ELSE LET i == Min(starts)
               j == Min({k \in i + 1..Len(s) : s[k] \in close})
           IN  Some(SubSeq(s, i + 1, j - 1))

DefaultTitle == <<"K", "i", "n", "d", "l", "e", " ", "N", "o", "t", "e", "b", "o", "o", "k">>

extractTitle(s) ==
  LET byClass == LazyBetween(s, TitleClassTags, DivCloseTags)
      byTag == LazyBetween(s, TitleOpenTags, TitleCloseTags)
      titleMatch == IF byClass # None THEN byClass ELSE byTag
  IN  cleanText(IF titleMatch # None THEN titleMatch[1] ELSE DefaultTitle)

extractAuthor(s) ==
  LET byClass == LazyBetween(s, AuthorClassTags, DivCloseTags)
      metas == {i \in 1..Len(s) : s[i] \in MetaAuthorTags}
      byMeta == IF metas = {} THEN None ELSE Some(MetaAuthorContent[s[Min(metas)]])
      authorMatch == IF byClass # None THEN byClass ELSE byMeta
  IN  IF Truthy(authorMatch) THEN Some(cleanText(authorMatch[1])) ELSE None

\* -------------------------------------------------------------- BlockScanner

\* For a heading capture that ends with the closing tag at index j: the index
\* of the noteText opening tag the pattern continues with (after \s*), or 0
\* when the rest of the pattern cannot match there.
TextOpenAfter(s, j) ==
  LET k == RunEnd(s, j + 1, Whitespace) + 1
  IN  IF /\ k <= Len(s) /\ s[k] \in TextOpenTags
         /\ \E m \in k + 1..Len(s) : s[m] \in DivCloseTags
      THEN k ELSE 0

\* The closing tags at which a heading capture that starts after the opening
\* tag at index i can end.
HeadingEnds(s, i) ==
  {j \in i + 1..Len(s) : s[j] \in DivCloseTags /\ TextOpenAfter(s, j) # 0}

\* headingBlock.exec(html) with headingBlock.lastIndex = from: the leftmost
\* match that starts at or after `from`, its lazy captures, and the new
\* lastIndex (0 and no match when the search fails).
Exec(s, from) ==
  LET starts == {i \in from + 1..Len(s) :
                   s[i] \in HeadingOpenTags /\ HeadingEnds(s, i) # {}}
  IN  IF starts = {} THEN [found |-> FALSE, group1 |-> <<>>, group2 |-> <<>>, lastIndex |-> 0]
      ELSE LET i == Min(starts)
               j == Min(HeadingEnds(s, i))
               k == TextOpenAfter(s, j)
               m == Min({n \in k + 1..Len(s) : s[n] \in DivCloseTags})
           IN  [found |-> TRUE,
                group1 |-> SubSeq(s, i + 1, j - 1),
                group2 |-> SubSeq(s, k + 1, m - 1),
                lastIndex |-> m]

\* The locals of one iteration of the scanning loop.
Block(m) ==
  LET heading == cleanText(m.group1)
  IN  [rawHeading |-> m.group1,
       rawBody |-> m.group2,
       heading |-> heading,
       body |-> cleanText(m.group2),
       location |-> extractLocation(heading),
       page |-> extractPage(heading),
       color |-> extractColor(heading),
       isNote |-> IsNoteHeading(heading)]

\* ------------------------------------------------------------ HighlightMerger

\* { text: body, note: undefined, color, page, location }
NewHighlight(b) ==
  [text |-> b.body, note |-> None, color |-> b.color, page |-> b.page,
   location |-> b.location]

\* A faulty variant of FindTarget: the location is ignored and the note
\* always goes to the last highlight.
FindTarget_AlwaysLast(hs, location) == Len(hs)

\* A faulty variant of FindTarget: without a match the note goes to the first
\* highlight instead of the last one.
FindTarget_FallbackFirst(hs, location) ==
  LET same == {i \in 1..Len(hs) : hs[i].location = location}
  IN  IF Truthy(location) /\ same # {} THEN Max(same)
      ELSE IF Len(hs) = 0 THEN 0 ELSE 1

\* The index in hs of the highlight a note block is merged into, 0 when there
\* is none:  (location && [...hs].reverse().find(same location)) || hs[last].
FindTarget(hs, location) ==
  LET same == {i \in 1..Len(hs) : hs[i].location = location}
  IN  IF Truthy(location) /\ same # {} THEN Max(same) ELSE Len(hs)

\* A faulty variant of MergeNote: the note's page replaces the target's page
\* even when the target has one.
MergeNote_OverwritePage(hs, t, b) ==
  [hs EXCEPT ![t] = [@ EXCEPT !.note = Some(b.body),
                              !.page = IF Truthy(b.page) THEN b.page ELSE @]]

\* A faulty variant of MergeNote: a highlight keeps the first note it got.
MergeNote_KeepFirstNote(hs, t, b) ==
  [hs EXCEPT ![t] = [@ EXCEPT !.note = IF @ = None THEN Some(b.body) ELSE @,
                              !.page = IF ~Truthy(@) /\ Truthy(b.page)
                                       THEN b.page ELSE @]]

\* target.note = body; if (!target.page && page) target.page = page
MergeNote(hs, t, b) ==
  [hs EXCEPT ![t] = [@ EXCEPT !.note = Some(b.body),
                              !.page = IF ~Truthy(@) /\ Truthy(b.page)
                                       THEN b.page ELSE @]]

\* A faulty variant of NoteBlockResult: a note with no highlight before it is
\* dropped.
NoteBlockResult_DropOrphan(hs, b) ==
  LET t == FindTarget(hs, b.location)
  IN  IF t # 0 THEN MergeNote(hs, t, b) ELSE hs

\* The branch of the loop body taken for a note block.
NoteBlockResult(hs, b) ==
  LET t == FindTarget(hs, b.location)
  IN  IF t # 0 THEN MergeNote(hs, t, b) ELSE Append(hs, NewHighlight(b))

\* A faulty variant of Fallback: taken whenever no highlight has any text.
Fallback_WhenNoText(hs, s) ==
  IF \A i \in 1..Len(hs) : hs[i].text = <<>>
  THEN LET bodyText == cleanText(s)
       IN  IF bodyText # <<>>
           THEN Append(hs, [text |-> bodyText, note |-> None, color |-> None,
                            page |-> None, location |-> None])
           ELSE hs
  ELSE hs

\* The whole-document fallback after the loop.
Fallback(hs, s) ==
  IF Len(hs) = 0
  THEN LET bodyText == cleanText(s)
       IN  IF bodyText # <<>>
           THEN Append(hs, [text |-> bodyText, note |-> None, color |-> None,
                            page |-> None, location |-> None])
           ELSE hs
  ELSE hs

\* ----------------------------------------------------------- MarkdownRenderer

\* U+00B7 and U+2014, in JavaScript escape notation.
MiddleDot == "\\u00B7"

EmDash == "\\u2014"

DigitChars == <<"0", "1", "2", "3", "4", "5", "6", "7", "8", "9">>

\* String(n) for a natural number.
RECURSIVE Decimal(_)
Decimal(n) ==
  IF n < Len(DigitChars) THEN <<DigitChars[n + 1]>>
  ELSE Decimal(n \div Len(DigitChars)) \o <<DigitChars[(n % Len(DigitChars)) + 1]>>

\* parts.join(sep)
RECURSIVE Join(_, _)
Join(parts, sep) ==
  IF parts = <<>> THEN <<>>
  ELSE IF Len(parts) = 1 THEN parts[1]
       ELSE parts[1] \o sep \o Join(Tail(parts), sep)

\* A faulty variant of MetaOf: absent fields are joined like present ones.
MetaOf_NoFilter(item) ==
  LET fields == <<IF Truthy(item.color) THEN item.color[1] ELSE <<>>,
                  IF Truthy(item.page) THEN <<"P", "a", "g", "e", " ">> \o item.page[1] ELSE <<>>,
                  IF Truthy(item.location) THEN <<"L", "o", "c", " ">> \o item.location[1] ELSE <<>> >>
  IN  IF \A i \in 1..Len(fields) : fields[i] = <<>> THEN <<>>
      ELSE Join(fields, <<" ", MiddleDot, " ">>)

\* [item.color, item.page ? `Page ..` : null, item.location ? `Loc ..` : null]
\*   .filter(Boolean).join(' \u00B7 ')
MetaOf(item) ==
  LET fields == <<item.color,
                  IF Truthy(item.page) THEN Some(<<"P", "a", "g", "e", " ">> \o item.page[1]) ELSE None,
                  IF Truthy(item.location) THEN Some(<<"L", "o", "c", " ">> \o item.location[1]) ELSE None>>
      kept == SelectSeq(fields, Truthy)
  IN  Join([i \in 1..Len(kept) |-> kept[i][1]], <<" ", MiddleDot, " ">>)

\* The lines pushed for the highlight at 0-based position index.
EntryLines(item, index) ==
  LET meta == MetaOf(item)
      label == IF meta # <<>> THEN <<" ", "(">> \o meta \o <<")">> ELSE <<>>
      entry == Decimal(index + 1) \o <<".", " ">> \o item.text
                 \o (IF label # <<>> THEN <<" ", EmDash, " ">> \o label ELSE <<>>)
  IN  IF Truthy(item.note) THEN <<entry, <<" ", " ", " ", ">", " ">> \o item.note[1]>> ELSE <<entry>>

RECURSIVE HighlightLines(_, _)
HighlightLines(hs, index) ==
  IF index >= Len(hs) THEN <<>>
  ELSE EntryLines(hs[index + 1], index) \o HighlightLines(hs, index + 1)

kindleNotebookToMarkdown(notebook) ==
  LET heading == <<"#", " ">> \o (IF notebook.title # <<>> THEN notebook.title ELSE DefaultTitle)
      byline == IF Truthy(notebook.author)
                THEN <<<<"_", "b", "y", " ">> \o notebook.author[1] \o <<"_">>>> ELSE <<>>
      lines == <<heading>> \o byline \o << <<>> >> \o HighlightLines(notebook.highlights, 0)
  IN  Join(lines, <<"\n">>)

\* ------------------------------------------------------------ input documents

\* A heading block followed by its body block, with the given tags and the
\* given text between the two blocks.
Pair(hOpen, heading, between, tOpen, body) ==
  <<hOpen>> \o heading \o <<"</div>">> \o between \o <<tOpen>> \o body \o <<"</div>">>

HighlightYellow40 ==
  Pair("<div class='noteHeading'>", <<"H", "i", "g", "h", "l", "i", "g", "h", "t", " ", "(", "y", "e", "l", "l", "o", "w", ")", " ", "-", " ", "L", "o", "c", "a", "t", "i", "o", "n", " ", "4", "0">>, <<"\n">>,
       "<div class='noteText'>", <<"a">>)

HighlightBlue52 ==
  Pair("<div id=\"h1\" class=\"noteHeading\">", <<"H", "i", "g", "h", "l", "i", "g", "h", "t", " ", "(", "B", "l", "u", "e", ")", " ", "-", " ", "P", "a", "g", "e", " ", "7", " ", "-", " ", "L", "o", "c", "a", "t", "i", "o", "n", " ", "5", "2">>,
       <<>>, "<DIV CLASS=\"noteText\">", <<"b">>)

NoteAt40 ==
  Pair("<div class='noteHeading'>", <<"N", "o", "t", "e", " ", "-", " ", "L", "o", "c", "a", "t", "i", "o", "n", " ", "4", "0">>, <<>>,
       "<div class='noteText'>", <<"c">>)

NotePage3At50 ==
  Pair("<div class='noteHeading'>", <<"N", "o", "t", "e", " ", "-", " ", "P", "a", "g", "e", " ", "3", " ", "-", " ", "L", "o", "c", "a", "t", "i", "o", "n", " ", "5", "0">>, <<" ", "\n">>,
       "<div class='noteText'>", <<"d">>)

NoteBare ==
  Pair("<div class='noteHeading'>", <<"N", "O", "T", "E">>, <<>>, "<div class='noteText'>", <<"e">>)

\* "Notes" is not the word "note": a highlight block, with an empty body.
NotesPage9 ==
  Pair("<div class='noteHeading'>", <<"N", "o", "t", "e", "s", " ", "-", " ", "P", "a", "g", "e", " ", "9">>, <<>>,
       "<div class='noteText'>", <<>>)

\* Markup of no known template.
Paragraph == <<"<p>">> \o <<"x", " ", "y">> \o <<"</p>">>

\* A heading block with no body block after it.
LoneHeading == <<"<div class='noteHeading'>">> \o <<"N", "o", "t", "e">> \o <<"</div>">> \o <<"z">>

MergePieces ==
  {HighlightYellow40, HighlightBlue52, NoteAt40, NotePage3At50, NoteBare,
   NotesPage9, Paragraph, LoneHeading}

TitleEmpty == <<"<title>", "</title>">>

TitleAtlas == <<"<title>">> \o <<"A", "t", "l", "a", "s">> \o <<"</title>">>

BookTitleAtlas == <<"<div class='bookTitle'>">> \o <<" ", "T", "h", "e", " ", " ", "A", "t", "l", "a", "s", " ">> \o <<"</div>">>

NotebookTitleBlank == <<"<div class=\"kp-notebook-title\">", "<b>">> \o <<"&", "n", "b", "s", "p", ";">> \o <<"</b>", "</div>">>

AuthorsDoe == <<"<div class='authors'>">> \o <<"J", ".", " ", "D", "o", "e">> \o <<"</div>">>

MetaDoe == <<"<meta name='author' content='J. Doe'>">>

MetaNobody == <<"<meta name='author' content=''>">>

TitlePieces ==
  {TitleEmpty, TitleAtlas, BookTitleAtlas, NotebookTitleBlank, AuthorsDoe,
   MetaDoe, MetaNobody, HighlightYellow40, NoteBare}

AmpLt ==
  Pair("<div class='noteHeading'>", <<"H", "i", "g", "h", "l", "i", "g", "h", "t", " ", "(", "Y", "e", "l", "l", "o", "w", ")">>, <<>>,
       "<div class='noteText'>", <<"&", "a", "m", "p", ";", "l", "t", ";">>)

AmpGt ==
  Pair("<div class='noteHeading'>", <<"H", "i", "g", "h", "l", "i", "g", "h", "t", " ", "(", "Y", "E", "L", "L", "O", "W", ")">>, <<>>,
       "<div class='noteText'>", <<"&", "a", "m", "p", ";", "g", "t", ";">>)

AmpNbsp ==
  Pair("<div class='noteHeading'>", <<"H", "i", "g", "h", "l", "i", "g", "h", "t", " ", "(", "p", "i", "n", "k", ")", " ", "-", " ", "P", "a", "g", "e", " ", "2">>, <<>>,
       "<div class='noteText'>", <<"&", "a", "m", "p", ";", "n", "b", "s", "p", ";">>)

AmpQuot ==
  Pair("<div class='noteHeading'>", <<"N", "o", "t", "e", " ", "(", "G", "r", "e", "e", "n", ")">>, <<>>,
       "<div class='noteText'>", <<"&", "a", "m", "p", ";", "q", "u", "o", "t", ";">>)

AmpApos ==
  Pair("<div class='noteHeading'>", <<"H", "i", "g", "h", "l", "i", "g", "h", "t", " ", "(", "o", "r", "a", "n", "g", "e", ")">>, <<>>,
       "<div class='noteText'>", <<"&", "a", "m", "p", ";", "#", "3", "9", ";">>)

Entities ==
  Pair("<div class='noteHeading'>", <<"H", "i", "g", "h", "l", "i", "g", "h", "t">>, <<>>,
       "<div class='noteText'>", <<"x", " ", "&", "l", "t", ";", "&", "a", "m", "p", ";", "&", "g", "t", ";", " ", "&", "q", "u", "o", "t", ";", "y", "&", "#", "3", "9", ";", "&", "n", "b", "s", "p", ";">>)

TextPieces == {AmpLt, AmpGt, AmpNbsp, AmpQuot, AmpApos, Entities}

RECURSIVE Concat(_)
Concat(pieces) ==
  IF pieces = <<>> THEN <<>> ELSE Head(pieces) \o Concat(Tail(pieces))

\* The documents made of at most MaxPieces pieces of P.
Documents(P) ==
  {Concat(f) : f \in UNION {[1..n -> P] : n \in 0..MaxPieces}}

\* ------------------------------------------------------------- state machine

\* The state when parseKindleHtml is called with a document of P.
InitWith(P) ==
  /\ html \in Documents(P)
  /\ pc = "start"
  /\ lastIndex = 0
  /\ highlights = <<>>
  /\ notebookTitle = <<>>
  /\ notebookAuthor = None
  /\ matches = <<>>
  /\ report = <<>>

Init == InitWith(MergePieces)

InitTitle == InitWith(TitlePieces)

InitText == InitWith(TextPieces)

\* const notebookTitle = extractTitle(html); const notebookAuthor = ...
Begin ==
  /\ pc = "start"
  /\ notebookTitle' = extractTitle(html)
  /\ notebookAuthor' = extractAuthor(html)
  /\ pc' = "scan"
  /\ UNCHANGED <<html, lastIndex, highlights, matches, report>>

\* One iteration of the loop for a block whose heading is not a note heading.
HighlightBlock ==
  /\ pc = "scan"
  /\ LET m == Exec(html, lastIndex)
         b == Block(m)
     IN  /\ m.found
         /\ ~b.isNote
         /\ highlights' = Append(highlights, NewHighlight(b))
         /\ matches' = Append(matches, [block |-> b, target |-> 0])
         /\ lastIndex' = m.lastIndex
  /\ UNCHANGED <<html, pc, notebookTitle, notebookAuthor, report>>

\* One iteration of the loop for a note block.
NoteBlock ==
  /\ pc = "scan"
  /\ LET m == Exec(html, lastIndex)
         b == Block(m)
     IN  /\ m.found
         /\ b.isNote
         /\ highlights' = NoteBlockResult(highlights, b)
         /\ matches' = Append(matches, [block |-> b,
                                        target |-> FindTarget(highlights, b.location)])
         /\ lastIndex' = m.lastIndex
  /\ UNCHANGED <<html, pc, notebookTitle, notebookAuthor, report>>

\* exec finds no further block: the loop ends, the fallback runs and
\* parseKindleHtml returns.
ExitLoop ==
  /\ pc = "scan"
  /\ ~Exec(html, lastIndex).found
  /\ lastIndex' = 0
  /\ highlights' = Fallback(highlights, html)
  /\ pc' = "done"
  /\ UNCHANGED <<html, notebookTitle, notebookAuthor, matches, report>>

\* kindleNotebookToMarkdown on the notebook parseKindleHtml returned.
Render ==
  /\ pc = "done"
  /\ report' = kindleNotebookToMarkdown([title |-> notebookTitle,
                                         author |-> notebookAuthor,
                                         highlights |-> highlights])
  /\ pc' = "rendered"
  /\ UNCHANGED <<html, lastIndex, highlights, notebookTitle, notebookAuthor, matches>>

\* The notebooks kindleNotebookToMarkdown is called with directly: every
\* combination of present and absent fields, in lists of at most
\* MaxHighlights highlights.
SampleHighlights ==
  [text : {<<"S", "a", "m", "p", "l", "e">>, <<>>},
   note : {None, Some(<<"g", "o", "o", "d", " ", "p", "o", "i", "n", "t">>)},
   color : {None, Some(<<"Y", "e", "l", "l", "o", "w">>)},
   page : {None, Some(<<"1", "2">>)},
   location : {None, Some(<<"3", "4", "0">>)}]

InitRender ==
  /\ html = <<>>
  /\ pc = "done"
  /\ lastIndex = 0
  /\ highlights \in UNION {[1..n -> SampleHighlights] : n \in 0..MaxHighlights}
  /\ notebookTitle \in {<<"A", "t", "l", "a", "s">>, <<>>}
  /\ notebookAuthor \in {None, Some(<<"J", ".", " ", "D", "o", "e">>)}
  /\ matches = <<>>
  /\ report = <<>>

Next == Begin \/ HighlightBlock \/ NoteBlock \/ ExitLoop \/ Render

Spec == Init /\ [][Next]_vars

SpecTitle == InitTitle /\ [][Next]_vars

SpecText == InitText /\ [][Next]_vars

NextRender == Render

SpecRender == InitRender /\ [][NextRender]_vars

\* ================================================================== properties

Last(s) == s[Len(s)]

Returned == pc \in {"done", "rendered"}

\* This step is one iteration of the scanning loop for a note block.
NoteStep == Len(matches') = Len(matches) + 1 /\ Last(matches').block.isNote

\* The highlights already in the list whose location is that of block b.
SameLocation(b) ==
  {i \in 1..Len(highlights) : b.location # None /\ highlights[i].location = b.location}

\* The list after the step is the list before it with the note of entry t set
\* to the body of b, and nothing else about the notes changed.
NoteWrittenTo(t, b) ==
  /\ Len(highlights') = Len(highlights)
  /\ highlights'[t].note = Some(b.body)
  /\ \A j \in 1..Len(highlights) : j # t => highlights'[j] = highlights[j]

\* C1: a note block whose location equals the location of at least one
\* highlight already in the list writes its body to the note of the most
\* recently added highlight with that location, and to no other entry (so not
\* to the last element, unless that is the same entry).
C1_NoteAttachesToSameLocation ==
  [][NoteStep =>
       LET b == Last(matches').block
       IN  SameLocation(b) # {} => NoteWrittenTo(Max(SameLocation(b)), b)]_vars

\* A note was merged into a highlight of its own location that is not the
\* last element of the list.
C1_Witness ==
  /\ matches # <<>>
  /\ Last(matches).block.isNote
  /\ Last(matches).block.location # None
  /\ \E t \in 1..Len(highlights) - 1 :
       /\ highlights[t].location = Last(matches).block.location
       /\ highlights[t].note = Some(Last(matches).block.body)
       /\ \A j \in t + 1..Len(highlights) :
            /\ highlights[j].location # Last(matches).block.location
            /\ highlights[j].note = None

\* C2: with a non-empty list, a note block that carries no location, or a
\* location equal to no existing highlight's location, writes its body to
\* the note of the last element of the list.
C2_NoteFallsBackToLast ==
  [][NoteStep =>
       LET b == Last(matches').block
       IN  (highlights # <<>> /\ SameLocation(b) = {})
             => NoteWrittenTo(Len(highlights), b)]_vars

\* A note with a location no highlight has was merged into the last of at
\* least two highlights.
C2_Witness ==
  /\ Len(highlights) >= 2
  /\ matches # <<>>
  /\ Last(matches).block.isNote
  /\ Last(matches).block.location # None
  /\ \A i \in 1..Len(highlights) : highlights[i].location # Last(matches).block.location
  /\ Last(highlights).note = Some(Last(matches).block.body)
  /\ highlights[1].note = None

\* A note block appends a standalone entry if and only if the list is empty,
\* and leaves the length alone otherwise.
OrphanNoteIsKept ==
  NoteStep =>
    LET b == Last(matches').block
    IN  IF highlights = <<>>
        THEN highlights' = <<[text |-> b.body, note |-> None, color |-> b.color,
                              page |-> b.page, location |-> b.location]>>
        ELSE Len(highlights') = Len(highlights)

\* The number of highlight blocks scanned, plus one when the first block
\* scanned is a note block.
FoldLength ==
  Cardinality({k \in 1..Len(matches) : ~matches[k].block.isNote})
    + (IF matches # <<>> /\ matches[1].block.isNote THEN 1 ELSE 0)

\* C3, as stated: a note block appends an entry exactly when the list is
\* empty, and the length of the list parseKindleHtml returns is the number of
\* highlight blocks, plus one exactly when the first block is a note block.
C3_Original ==
  [][OrphanNoteIsKept /\ (Returned' => Len(highlights') = FoldLength')]_vars

\* C3, amended: the same, with the length taken when at least one block was
\* scanned (with none, the whole-document fallback may add an entry).
C3_OrphanNoteAndLength ==
  [][/\ OrphanNoteIsKept
     /\ (Returned' /\ matches' # <<>>) => Len(highlights') = FoldLength']_vars

\* A note block came first, was kept as a standalone entry, and a highlight
\* and a merged note followed.
C3_Witness ==
  /\ Returned
  /\ Len(matches) >= 3
  /\ matches[1].block.isNote
  /\ highlights[1].text = matches[1].block.body
  /\ highlights[1].color = matches[1].block.color
  /\ Len(highlights) = 2

\* C4: when the scanner yields no pair, the returned list is the single
\* highlight whose text is the normalized whole document, with no note, color,
\* page or location, or is empty when that text is empty; and the fallback is
\* not taken when at least one pair was scanned.
C4_WholeDocumentFallback ==
  [][/\ (Returned' /\ matches' = <<>>) =>
           highlights' = IF cleanText(html') # <<>>
                         THEN <<[text |-> cleanText(html'), note |-> None,
                                 color |-> None, page |-> None, location |-> None]>>
                         ELSE <<>>
     /\ (pc = "scan" /\ pc' = "done" /\ matches # <<>>) => highlights' = highlights]_vars

\* A document with markup but no heading/body pair came back as one highlight.
C4_Witness ==
  /\ pc = "done"
  /\ matches = <<>>
  /\ \E i \in 1..Len(html) : html[i] \in Tag
  /\ Len(highlights) = 1
  /\ highlights[1].text # <<>>

\* C5: a step appends one entry, or sets the note of one existing entry and,
\* only if that entry has no page, its page.  Text, color and location of an
\* existing entry never change, a page that is present is never replaced, and
\* no entry is removed or moved.
C5_MergeFrame ==
  [][/\ Len(highlights') \in {Len(highlights), Len(highlights) + 1}
     /\ \A i \in 1..Len(highlights) :
          /\ highlights'[i].text = highlights[i].text
          /\ highlights'[i].color = highlights[i].color
          /\ highlights'[i].location = highlights[i].location
          /\ highlights[i].page # None => highlights'[i].page = highlights[i].page
          /\ highlights'[i].page # highlights[i].page
               => highlights'[i].note # None /\ Len(matches') = Len(matches) + 1
     /\ Len(highlights') = Len(highlights) + 1
          => \A i \in 1..Len(highlights) : highlights'[i] = highlights[i]
     /\ Cardinality({i \in 1..Len(highlights) : highlights'[i] # highlights[i]}) <= 1]_vars

\* A highlight scanned without a page got its page from a later note, and
\* another highlight kept the page it was scanned with.
C5_Witness ==
  /\ Len(matches) >= 3
  /\ ~matches[1].block.isNote
  /\ matches[1].block.page = None
  /\ highlights[1].page # None
  /\ highlights[1].note # None
  /\ Len(highlights) >= 2

\* C6: the title parseKindleHtml returns is never the empty string.
C6_TitleNeverEmpty == Returned => notebookTitle # <<>>

\* The encoded ampersand followed by the rest of each other entity's name.
NestedEntities ==
  {<<"l", "t", ";">>, <<"g", "t", ";">>, <<"n", "b", "s", "p", ";">>, <<"q", "u", "o", "t", ";">>, <<"#", "3", "9", ";">>}

\* C7: a body that is an encoded ampersand followed by the rest of another
\* entity's name normalizes to the literal entity text, never to the decoded
\* character.
C7_AmpersandDecodedLast ==
  \A k \in 1..Len(matches) : \A rest \in NestedEntities :
    matches[k].block.rawBody = <<"&", "a", "m", "p", ";">> \o rest
      => matches[k].block.body = <<"&">> \o rest

\* C8: the color stored on a highlight is one of the reference forms.
C8_ColorIsCanonical ==
  \A i \in 1..Len(highlights) :
    highlights[i].color = None \/ highlights[i].color[1] \in ColorNames

\* The report, line by line.
RECURSIVE SplitLines(_)
SplitLines(s) ==
  LET breaks == {i \in 1..Len(s) : s[i] = "\n"}
  IN  IF breaks = {} THEN <<s>>
      ELSE <<SubSeq(s, 1, Min(breaks) - 1)>>
             \o SplitLines(SubSeq(s, Min(breaks) + 1, Len(s)))

\* The line of the report that holds the entry of the highlight at position
\* i: after the title, the optional author line, the blank line, and the
\* entries and note lines of the highlights before it.
EntryLine(i) ==
  SplitLines(report)[
    1 + (IF Truthy(notebookAuthor) THEN 1 ELSE 0) + 1
      + Cardinality({j \in 1..i - 1 : Truthy(highlights[j].note)}) + i]

Dot == <<" ", MiddleDot, " ">>

\* What follows the text of the entry of highlight h.
ExpectedSuffix(h) ==
  LET c == h.color # None
      p == h.page # None
      l == h.location # None
      page == <<"P", "a", "g", "e", " ">> \o h.page[1]
      loc == <<"L", "o", "c", " ">> \o h.location[1]
      open == <<" ", EmDash, " ", " ", "(">>
  IN  CASE ~c /\ ~p /\ ~l -> <<>>
        [] c /\ ~p /\ ~l -> open \o h.color[1] \o <<")">>
        [] ~c /\ p /\ ~l -> open \o page \o <<")">>
        [] ~c /\ ~p /\ l -> open \o loc \o <<")">>
        [] c /\ p /\ ~l -> open \o h.color[1] \o Dot \o page \o <<")">>
        [] c /\ ~p /\ l -> open \o h.color[1] \o Dot \o loc \o <<")">>
        [] ~c /\ p /\ l -> open \o page \o Dot \o loc \o <<")">>
        [] c /\ p /\ l -> open \o h.color[1] \o Dot \o page \o Dot \o loc \o <<")">>

\* C9: the entry of the highlight at position i is numbered i and holds its
\* text; it has no parenthetical when color, page and location are all
\* absent, and otherwise exactly one, listing the present fields in the order
\* color, page, location, joined by a middle dot.
C9_EntryFormat ==
  pc = "rendered" =>
    \A i \in 1..Len(highlights) :
      EntryLine(i) = Decimal(i) \o <<".", " ">> \o highlights[i].text
                       \o ExpectedSuffix(highlights[i])

\* A rendered notebook with an entry that has a color and a location but no
\* page, after an entry that has a note and no metadata at all.
C9_Witness ==
  /\ pc = "rendered"
  /\ Len(highlights) = 2
  /\ highlights[1].note # None
  /\ highlights[1].color = None /\ highlights[1].page = None
  /\ highlights[1].location = None
  /\ highlights[2].color # None /\ highlights[2].page = None
  /\ highlights[2].location # None

\* The note blocks scanned so far that were merged into highlight t.
NotesFor(t) ==
  {k \in 1..Len(matches) : matches[k].block.isNote /\ matches[k].target = t}

\* The body of block k is the body of no other block.
UniqueBody(k) ==
  \A j \in 1..Len(matches) : j # k => matches[j].block.body # matches[k].block.body

\* C10: the note of a highlight is the body of the last note block merged
\* into it (and absent when there was none); the body of an earlier note
\* block merged into the same highlight is in no field of the notebook.
C10_LastNoteWins ==
  \A t \in 1..Len(highlights) :
    /\ highlights[t].note =
         IF NotesFor(t) = {} THEN None
         ELSE Some(matches[Max(NotesFor(t))].block.body)
    /\ \A k \in NotesFor(t) :
         (k # Max(NotesFor(t)) /\ UniqueBody(k)) =>
           \A i \in 1..Len(highlights) :
             /\ highlights[i].text # matches[k].block.body
             /\ highlights[i].note # Some(matches[k].block.body)

\* Two note blocks with different bodies were merged into the same highlight.
C10_Witness ==
  /\ Returned
  /\ \E t \in 1..Len(highlights) : \E j, k \in NotesFor(t) :
       /\ j < k
       /\ matches[j].block.body # matches[k].block.body
       /\ highlights[t].note = Some(matches[k].block.body)

====
